---------------------------- MODULE Spec2Model ----------------------------
(***************************************************************************)
(* A model of host_guest/Analysis/Scripts/analyze_sampling.py, the SAMPL6  *)
(* SAMPLing analysis script.  The script is a collection of functions over *)
(* tabular data (pandas frames) and a main block that calls them in a      *)
(* fixed order.  Each function is modelled as one action that applies the  *)
(* function, as the code computes it, to inputs drawn from bounded sets.   *)
(*                                                                         *)
(* Real numbers are modelled exactly: a data value is an integer, a        *)
(* computed value is a fraction <<numerator, denominator>> in lowest       *)
(* terms.  Fractions are compared by their continued-fraction expansion,   *)
(* so no product ever leaves TLC's integer range.                          *)
(***************************************************************************)
EXTENDS Integers, Sequences, FiniteSets, TLC

VARIABLES
    \* fit_efficiency(mean_data, find_best_fit)
    mean_data,        \* the frame passed in: a sequence of rows
    find_best_fit,    \* the flag passed in
    fits,             \* the local list `fits` when the function returns
    fit_ret,          \* what the call returned (or that it raised)
    fit_pc,           \* "call" before the call, "done" after it
    \* reduce_to_first_significant_digit(quantity, uncertainty)
    quantity,         \* the arguments, in hundredths
    uncertainty,
    round_ret,        \* what the call returned (or that it raised)
    round_pc,
    \* compute_all_mean_relative_efficiencies(mean_data, reference_mean_data)
    eff_mean_data,        \* the frame passed as mean_data
    reference_mean_data,  \* the caller's frame passed as reference_mean_data
    eff_ret,              \* what the call returned (or that it raised)
    eff_pc,
    \* plot_submissions_trajectory(submissions, yank_analysis, axes,
    \*                             plot_std, plot_bias)
    submissions,      \* the list of submissions passed in
    yank_analysis,    \* TRUE for a YankSamplingAnalysis, FALSE for None
    plot_std,
    plot_bias,
    figure,           \* the draw calls made on the axes, and how it ended
    plot_pc,
    \* print_relative_efficiency_table(submissions, yank_analysis)
    methods,                \* the list methods, the index of the table
    efficiency_table,       \* (system name, column name) -> list of entries
    table_pc,
    \* the main script
    files,                  \* the submissions load_submissions finds
    user_map,               \* TRUE once the user map is read
    reference_efficiencies, \* system name -> efficiency of the reference
    main_pc,                \* the statement to execute next
    executed                \* history: the statements executed, in order

fitVars == <<mean_data, find_best_fit, fits, fit_ret, fit_pc>>
roundVars == <<quantity, uncertainty, round_ret, round_pc>>
effVars == <<eff_mean_data, reference_mean_data, eff_ret, eff_pc>>
plotVars == <<submissions, yank_analysis, plot_std, plot_bias, figure, plot_pc>>

tableVars == <<methods, efficiency_table, table_pc>>
mainVars == <<files, user_map, reference_efficiencies, main_pc, executed>>

vars == <<fitVars, roundVars, effVars, plotVars, tableVars, mainVars>>

-----------------------------------------------------------------------------
(* Bounds of the model. *)

MaxRows == 5          \* rows of a frame given to fit_efficiency
MaxStd == 3           \* largest value in a 'std' column
MaxEvalStep == 2      \* largest spacing of the 'N energy evaluations' column
MaxQuantity == 130    \* largest |quantity| given to the rounding, in hundredths
MaxUncertainty == 25  \* largest |uncertainty| given to it, in hundredths
MaxEffRows == 2       \* rows of the frames given to the relative efficiencies

-----------------------------------------------------------------------------
(* Exact arithmetic. *)

RECURSIVE GCD(_, _)
GCD(a, b) == IF b = 0 THEN a ELSE GCD(b, a % b)

LCM(a, b) == (a \div GCD(a, b)) * b

RECURSIVE SeqLCM(_)
SeqLCM(s) == IF s = <<>> THEN 1 ELSE LCM(Head(s), SeqLCM(Tail(s)))

RECURSIVE SeqSum(_)
SeqSum(s) == IF s = <<>> THEN 0 ELSE Head(s) + SeqSum(Tail(s))

\* The fraction n/d in lowest terms; d = 0 stands for +inf.
Frac(n, d) ==
    IF d = 0 THEN <<1, 0>>
    ELSE LET g == GCD(n, d) IN <<n \div g, d \div g>>

Inf == <<1, 0>>

\* a/b < c/d for a, c >= 0 and b, d > 0, by continued fractions.
RECURSIVE PosLess(_, _, _, _)
PosLess(a, b, c, d) ==
    LET qa == a \div b
        qc == c \div d
        ra == a % b
        rc == c % d
    IN  IF qa # qc THEN qa < qc
        ELSE IF rc = 0 THEN FALSE
        ELSE IF ra = 0 THEN TRUE
        ELSE PosLess(d, rc, b, ra)

\* x < y for non-negative fractions, +inf (<<1, 0>>) and nan (<<0, 0>>)
\* included: inf < inf is false, and so is any comparison with nan.
FracLess(x, y) ==
    IF x = <<0, 0>> \/ y = <<0, 0>> THEN FALSE
    ELSE IF x[2] = 0 THEN FALSE
    ELSE IF y[2] = 0 THEN TRUE
    ELSE PosLess(x[1], x[2], y[1], y[2])

-----------------------------------------------------------------------------
(* A function that a specification does not call stays idle. *)

IdleFit ==
    /\ mean_data = <<>>
    /\ find_best_fit = FALSE
    /\ fits = <<>>
    /\ fit_ret = [raised |-> FALSE, efficiency |-> <<0, 1>>, n_discarded |-> -1]
    /\ fit_pc = "idle"

IdleRound ==
    /\ quantity = 0
    /\ uncertainty = 0
    /\ round_ret = [raised |-> FALSE, quantity |-> 0, uncertainty |-> 0]
    /\ round_pc = "idle"

IdleEff ==
    /\ eff_mean_data = <<>>
    /\ reference_mean_data = <<>>
    /\ eff_ret = [raised |-> FALSE, relative |-> <<>>, corrected |-> <<>>]
    /\ eff_pc = "idle"

IdlePlot ==
    /\ submissions = <<>>
    /\ yank_analysis = FALSE
    /\ plot_std = FALSE
    /\ plot_bias = FALSE
    /\ figure = [raised |-> "", axes |-> <<>>, xlim |-> <<>>]
    /\ plot_pc = "idle"

IdleTable ==
    /\ methods = <<>>
    /\ efficiency_table = <<>>
    /\ table_pc = "idle"

IdleMain ==
    /\ files = <<>>
    /\ user_map = FALSE
    /\ reference_efficiencies = <<>>
    /\ main_pc = "idle"
    /\ executed = <<>>

-----------------------------------------------------------------------------
(* fit_efficiency *)

\* scipy.optimize.curve_fit(model, cost_fit, vars_fit, p0=[0.0]) for
\* model(x, log_efficiency) = exp(log_efficiency) / x, at the least-squares
\* optimum.  With u_i = D / x_i (D a common multiple of the costs),
\* A = sum y_i u_i, B = sum u_i^2 and Y2 = sum y_i^2, the optimum is
\* exp(popt) = D A / B and, as the residual variance times the inverse of
\* J^T J, pcov = (B Y2 - A^2) / ((n - 1) A^2).  With as many points as
\* parameters (n = 1) curve_fit cannot estimate the covariance and fills
\* pcov with inf.  The result is the tuple the code appends to `fits`:
\* (np.exp(fit[0]), fit[1]).
curve_fit(cost_fit, vars_fit) ==
    LET n == Len(cost_fit)
        D == SeqLCM(cost_fit)
        u == [i \in 1..n |-> D \div cost_fit[i]]
        A == SeqSum([i \in 1..n |-> vars_fit[i] * u[i]])
        B == SeqSum([i \in 1..n |-> u[i] * u[i]])
        Y2 == SeqSum([i \in 1..n |-> vars_fit[i] * vars_fit[i]])
    IN  <<Frac(D * A, B),
          IF n > 1 THEN Frac(B * Y2 - A * A, (n - 1) * A * A) ELSE Inf>>

\* The search for the best fit made whatever the flag says.
MaxDiscardedAlwaysHalf(n_rows, best) == n_rows \div 2

\* The number of candidate fits, lines 104-109.
max_discarded(n_rows, best) ==
    IF best
    THEN n_rows \div 2      \* math.floor(0.5*len(cost))
    ELSE 1

\* min(fits, key=lambda x: x[1]): the first element whose key is smaller
\* than the key of every element before it and not greater than any after.
RECURSIVE MinFrom(_, _, _)
MinFrom(s, i, best) ==
    IF i > Len(s) THEN best
    ELSE MinFrom(s, i + 1, IF FracLess(s[i][2], best[2]) THEN s[i] ELSE best)

\* min() keyed on the efficiency, x[0], in place of the error, x[1].
MinByEfficiency(s) ==
    LET m == CHOOSE i \in 1..Len(s) :
                 /\ \A j \in 1..Len(s) : ~FracLess(s[j][1], s[i][1])
                 /\ \A j \in 1..(i - 1) : FracLess(s[i][1], s[j][1])
    IN  s[m]

MinByError(s) == MinFrom(s, 2, s[1])

\* list.index(x): the position (from 0) of the first element equal to x.
ListIndex(s, x) == (CHOOSE i \in 1..Len(s) :
                        /\ s[i] = x
                        /\ \A j \in 1..(i - 1) : s[j] # x) - 1

NoFit == [raised |-> FALSE, efficiency |-> <<0, 1>>, n_discarded |-> -1]

\* The body of fit_efficiency, lines 100-124: the list `fits` and the
\* returned pair.  min() of an empty list raises ValueError.
fit_efficiency(md, best) ==
    LET n_rows == Len(md)
        variances == [i \in 1..n_rows |-> md[i].std * md[i].std]
        cost == [i \in 1..n_rows |-> md[i].Simulation_percentage]
        all_fits == [k \in 1..max_discarded(n_rows, best) |->
                        curve_fit(SubSeq(cost, k, n_rows),
                                  SubSeq(variances, k, n_rows))]
    IN  IF all_fits = <<>>
        THEN [fits |-> all_fits,
              ret |-> [NoFit EXCEPT !.raised = TRUE]]
        ELSE LET n_discarded == ListIndex(all_fits, MinByError(all_fits))
                 e == all_fits[n_discarded + 1][1]
                 last == md[n_rows].N_energy_evaluations
             IN  [fits |-> all_fits,
                  ret |-> [raised |-> FALSE,
                           efficiency |-> Frac(e[1] * last, e[2] * 100),
                           n_discarded |-> n_discarded]]

\* The frames fit_efficiency is given: evenly spaced simulation percentages
\* ending at (about) 100, a positive standard deviation in every row and an
\* increasing number of energy evaluations.
MeanFrames ==
    UNION {
        { [i \in 1..n |-> [Simulation_percentage |-> i * (100 \div n),
                           std |-> s[i],
                           N_energy_evaluations |-> i * step]] :
            s \in [1..n -> 1..MaxStd], step \in 1..MaxEvalStep }
        : n \in 1..MaxRows }

InitFit ==
    /\ mean_data \in MeanFrames
    /\ find_best_fit \in BOOLEAN
    /\ fits = <<>>
    /\ fit_ret = NoFit
    /\ fit_pc = "call"
    /\ IdleRound
    /\ IdleEff
    /\ IdlePlot
    /\ IdleTable
    /\ IdleMain

FitEfficiency ==
    /\ fit_pc = "call"
    /\ LET r == fit_efficiency(mean_data, find_best_fit)
       IN  /\ fits' = r.fits
           /\ fit_ret' = r.ret
    /\ fit_pc' = "done"
    /\ UNCHANGED <<mean_data, find_best_fit, roundVars, effVars, plotVars,
                   tableVars, mainVars>>

NextFit == FitEfficiency

SpecFit == InitFit /\ [][NextFit]_vars


-----------------------------------------------------------------------------
(* reduce_to_first_significant_digit *)

Abs(x) == IF x < 0 THEN -x ELSE x

RECURSIVE Pow10(_)
Pow10(k) == IF k = 0 THEN 1 ELSE 10 * Pow10(k - 1)

\* The number of decimal digits of n >= 1.
RECURSIVE NDigits(_)
NDigits(n) == IF n < 10 THEN 1 ELSE 1 + NDigits(n \div 10)

\* math.floor(math.log10(abs(uncertainty))), line 72, for an uncertainty
\* given in hundredths: 0.05 (5) gives -2, 0.25 (25) gives -1, 1.3 (130)
\* gives 0.
first_significant_digit(u) == NDigits(Abs(u)) - 1 - 2

\* round(x, ndigits) for x in hundredths and ndigits <= 2: the multiple of
\* 10^-ndigits nearest to x.  Python rounds the binary value of the float:
\* a tie that a float holds exactly (a multiple of 0.25) goes to the even
\* neighbour, any other decimal tie goes to the neighbour the float's
\* expansion is nearer to, which the decimal value does not decide: both
\* are outcomes.
round(x, ndigits) ==
    LET step == Pow10(2 - ndigits)
        lo == step * (x \div step)
        r == x - lo
    IN  IF 2 * r < step THEN {lo}
        ELSE IF 2 * r > step THEN {lo + step}
        ELSE IF x % 25 = 0
             THEN {IF (lo \div step) % 2 = 0 THEN lo ELSE lo + step}
             ELSE {lo, lo + step}

NoRound == [raised |-> FALSE, quantity |-> 0, uncertainty |-> 0]

\* The outcomes of reduce_to_first_significant_digit, lines 70-75.
\* math.log10(0) raises ValueError.
reduce_to_first_significant_digit(q, u) ==
    IF u = 0
    THEN {[NoRound EXCEPT !.raised = TRUE]}
    ELSE LET d == first_significant_digit(u)
         IN  { [raised |-> FALSE, quantity |-> rq, uncertainty |-> ru] :
                 rq \in round(q, -d), ru \in round(u, -d) }

InitRound ==
    /\ quantity \in (-MaxQuantity)..MaxQuantity
    /\ uncertainty \in (-MaxUncertainty)..MaxUncertainty
    /\ round_ret = NoRound
    /\ round_pc = "call"
    /\ IdleFit
    /\ IdleEff
    /\ IdlePlot
    /\ IdleTable
    /\ IdleMain

ReduceToFirstSignificantDigit ==
    /\ round_pc = "call"
    /\ round_ret' \in reduce_to_first_significant_digit(quantity, uncertainty)
    /\ round_pc' = "done"
    /\ UNCHANGED <<quantity, uncertainty, fitVars, effVars, plotVars,
                   tableVars, mainVars>>

NextRound == ReduceToFirstSignificantDigit

SpecRound == InitRound /\ [][NextRound]_vars

-----------------------------------------------------------------------------
(* compute_geometric_mean_relative_efficiencies and                        *)
(* compute_all_mean_relative_efficiencies.  A frame is a sequence of rows  *)
(* with the columns DG, std and bias.  A geometric mean is kept exactly,   *)
(* as <<n, d, r>> for the r-th root of n/d (n/d in lowest terms);          *)
(* <<0, 0, 0>> is nan, the geometric mean of no value at all.              *)

NaN == <<0, 0, 0>>

Root(n, d, r) ==
    IF r = 0 THEN NaN
    ELSE LET q == Frac(n, d) IN <<q[1], q[2], r>>

RECURSIVE SeqProd(_)
SeqProd(s) == IF s = <<>> THEN 1 ELSE Head(s) * SeqProd(Tail(s))

\* The elements of s at the positions in keep, in order.
RECURSIVE Select(_, _)
Select(s, keep) ==
    IF s = <<>> THEN <<>>
    ELSE LET rest == Select(Tail(s), {i - 1 : i \in keep \ {1}})
         IN  IF 1 \in keep THEN <<Head(s)>> \o rest ELSE rest

\* np.nonzero(mean_data[DG_KEY].values)[0][0], from 1; 0 when every value
\* is zero, where the code raises IndexError.
first_nonzero_idx(md) ==
    IF \A i \in 1..Len(md) : md[i].DG = 0 THEN 0
    ELSE CHOOSE i \in 1..Len(md) :
             /\ md[i].DG # 0
             /\ \A j \in 1..(i - 1) : md[j].DG = 0

\* Lines 849-878.
compute_geometric_mean_relative_efficiencies(md, ref) ==
    LET first == first_nonzero_idx(md)
        n == Len(md) - first + 1
        var == [i \in 1..n |-> md[first + i - 1].std * md[first + i - 1].std]
        reference_var ==
            [i \in 1..n |-> ref[first + i - 1].std * ref[first + i - 1].std]
        bias == [i \in 1..n |-> md[first + i - 1].bias]
        reference_bias == [i \in 1..n |-> ref[first + i - 1].bias]
        \* ~np.isclose(bias, 0.0), then ~np.isclose(reference_bias, 0.0)
        nonzero == {i \in 1..n : bias[i] # 0 /\ reference_bias[i] # 0}
        kept_bias == Select(bias, nonzero)
        kept_reference_bias == Select(reference_bias, nonzero)
        mean_std_efficiency ==
            Root(SeqProd(reference_var), SeqProd(var), 2 * n)
        mean_rmsd_efficiency ==
            Root(SeqProd([i \in 1..n |->
                     reference_var[i] + reference_bias[i] * reference_bias[i]]),
                 SeqProd([i \in 1..n |-> var[i] + bias[i] * bias[i]]),
                 2 * n)
        mean_abs_bias_efficiency ==
            Root(SeqProd([i \in 1..Len(kept_bias) |->
                              Abs(kept_reference_bias[i])]),
                 SeqProd([i \in 1..Len(kept_bias) |-> Abs(kept_bias[i])]),
                 Len(kept_bias))
    IN  <<mean_std_efficiency, mean_abs_bias_efficiency, mean_rmsd_efficiency>>

\* copy.deepcopy given up: the local name stays bound to the caller's object.
NoCopy(heap, id) == [heap |-> heap, ref |-> id]

\* copy.deepcopy(reference_mean_data), line 885: a new object with the same
\* contents; heap maps object identities to frames.
deepcopy(heap, id) ==
    LET new == 1 + Cardinality(DOMAIN heap)
    IN  [heap |-> (new :> heap[id]) @@ heap, ref |-> new]

\* The subtraction applied to the 'std' column.
SubtractFinalStd(frame) ==
    [i \in 1..Len(frame) |->
        [frame[i] EXCEPT !.std = @ - frame[Len(frame)].std]]

\* reference_mean_data['bias'] -= reference_mean_data['bias'].values[-1],
\* line 886, on the object the name is bound to.
subtract_final_bias(frame) ==
    [i \in 1..Len(frame) |->
        [frame[i] EXCEPT !.bias = @ - frame[Len(frame)].bias]]

NoEff == [raised |-> FALSE, relative |-> <<>>, corrected |-> <<>>]

\* Lines 881-888, on a heap in which the caller's reference_mean_data is
\* the object id: the returned pair and the heap the call leaves.
compute_all_mean_relative_efficiencies(md, heap, id) ==
    IF first_nonzero_idx(md) = 0
    THEN [ret |-> [NoEff EXCEPT !.raised = TRUE], heap |-> heap]
    ELSE LET relative_efficiencies ==
                 compute_geometric_mean_relative_efficiencies(md, heap[id])
             copied == deepcopy(heap, id)
             shifted == [copied.heap EXCEPT
                            ![copied.ref] = subtract_final_bias(@)]
             corrected_relative_efficiencies ==
                 compute_geometric_mean_relative_efficiencies(
                     md, shifted[copied.ref])
         IN  [ret |-> [raised |-> FALSE,
                       relative |-> relative_efficiencies,
                       corrected |-> corrected_relative_efficiencies],
              heap |-> shifted]

\* The values of the columns in the frames given to the efficiencies.
EffStd == {1, 2}
EffBias == {-1, 0, 1}

\* The 'std' columns of n rows: the spread of the replicates does not grow
\* as the calculation proceeds.
EffStdColumns(n) ==
    {s \in [1..n -> EffStd] : \A i \in 1..(n - 1) : s[i] >= s[i + 1]}

\* A submission's mean trajectory: the first rows may hold no estimate yet
\* (DG = 0.0), every later row holds one.
EffMeanFrames ==
    UNION {
        { [i \in 1..n |-> [DG |-> IF i <= zeros THEN 0 ELSE -7,
                           std |-> s[i], bias |-> b[i]]] :
            zeros \in 0..n, s \in EffStdColumns(n), b \in [1..n -> EffBias] }
        : n \in 1..MaxEffRows }

\* The 'bias' columns of the reference: its distance to the asymptotic
\* value does not grow as the calculation proceeds.
EffReferenceBiasColumns(n) ==
    {b \in [1..n -> EffBias] :
        \A i \in 1..(n - 1) : Abs(b[i]) >= Abs(b[i + 1])}

\* The reference's mean trajectory over the same rows.
EffReferenceFrames(n) ==
    { [i \in 1..n |-> [DG |-> -7, std |-> s[i], bias |-> b[i]]] :
        s \in EffStdColumns(n), b \in EffReferenceBiasColumns(n) }

InitEff ==
    /\ eff_mean_data \in EffMeanFrames
    /\ reference_mean_data \in EffReferenceFrames(Len(eff_mean_data))
    /\ eff_ret = NoEff
    /\ eff_pc = "call"
    /\ IdleFit
    /\ IdleRound
    /\ IdlePlot
    /\ IdleTable
    /\ IdleMain

ComputeAllMeanRelativeEfficiencies ==
    /\ eff_pc = "call"
    /\ LET r == compute_all_mean_relative_efficiencies(
                    eff_mean_data, (1 :> reference_mean_data), 1)
       IN  /\ eff_ret' = r.ret
           /\ reference_mean_data' = r.heap[1]
    /\ eff_pc' = "done"
    /\ UNCHANGED <<eff_mean_data, fitVars, roundVars, plotVars, tableVars,
                   mainVars>>

NextEff == ComputeAllMeanRelativeEfficiencies

SpecEff == InitEff /\ [][NextEff]_vars

-----------------------------------------------------------------------------
(* Names.  A Python string is the sequence of its code points, so that      *)
(* sorted(), the `in` test and + on strings are computed, not assumed.      *)

\* 'OpenMM/HREX'
YANK_METHOD_PAPER_NAME == <<79, 112, 101, 110, 77, 77, 47, 72, 82, 69, 88>>
\* 'AMBER/APR'
AMBER_APR == <<65, 77, 66, 69, 82, 47, 65, 80, 82>>
\* 'OpenMM/WExplore'
OPENMM_WEXPLORE == <<79, 112, 101, 110, 77, 77, 47, 87, 69, 120, 112, 108,
    111, 114, 101>>
\* 'OpenMM/SOMD'
OPENMM_SOMD == <<79, 112, 101, 110, 77, 77, 47, 83, 79, 77, 68>>
\* 'GROMACS/EE'
GROMACS_EE == <<71, 82, 79, 77, 65, 67, 83, 47, 69, 69>>
\* 'GROMACS/EE-fullequil'
GROMACS_EE_FULLEQUIL == <<71, 82, 79, 77, 65, 67, 83, 47, 69, 69, 45, 102,
    117, 108, 108, 101, 113, 117, 105, 108>>
\* 'GROMACS/CT-NS-long'
GROMACS_CT_NS_LONG == <<71, 82, 79, 77, 65, 67, 83, 47, 67, 84, 45, 78, 83,
    45, 108, 111, 110, 103>>
\* 'GROMACS/CT-NS'
GROMACS_CT_NS == <<71, 82, 79, 77, 65, 67, 83, 47, 67, 84, 45, 78, 83>>
\* 'GROMACS/NS-Jarz-F'
GROMACS_NS_JARZ_F == <<71, 82, 79, 77, 65, 67, 83, 47, 78, 83, 45, 74, 97,
    114, 122, 45, 70>>
\* 'GROMACS/NS-Jarz-R'
GROMACS_NS_JARZ_R == <<71, 82, 79, 77, 65, 67, 83, 47, 78, 83, 45, 74, 97,
    114, 122, 45, 82>>
\* 'GROMACS/NS-Gauss-F'
GROMACS_NS_GAUSS_F == <<71, 82, 79, 77, 65, 67, 83, 47, 78, 83, 45, 71, 97,
    117, 115, 115, 45, 70>>
\* 'GROMACS/NS-Gauss-R'
GROMACS_NS_GAUSS_R == <<71, 82, 79, 77, 65, 67, 83, 47, 78, 83, 45, 71, 97,
    117, 115, 115, 45, 82>>
\* 'Expanded-ensemble/MBAR'
EXPANDED_ENSEMBLE_MBAR == <<69, 120, 112, 97, 110, 100, 101, 100, 45, 101,
    110, 115, 101, 109, 98, 108, 101, 47, 77, 66, 65, 82>>
\* 'WExploreRateRatio'
WEXPLORE_RATE_RATIO == <<87, 69, 120, 112, 108, 111, 114, 101, 82, 97, 116,
    101, 82, 97, 116, 105, 111>>
\* 'Langevin/Virtual Bond/TI'
LANGEVIN_VIRTUAL_BOND_TI == <<76, 97, 110, 103, 101, 118, 105, 110, 47, 86,
    105, 114, 116, 117, 97, 108, 32, 66, 111, 110, 100, 47, 84, 73>>
\* '-fullequil'
FULLEQUIL_SUFFIX == <<45, 102, 117, 108, 108, 101, 113, 117, 105, 108>>
\* 'EE'
STR_EE == <<69, 69>>
\* 'Jarz'
STR_JARZ == <<74, 97, 114, 122>>
\* 'Gauss'
STR_GAUSS == <<71, 97, 117, 115, 115>>

\* s < t for Python strings: the first differing code point decides, a
\* proper prefix is smaller.
RECURSIVE StrLess(_, _)
StrLess(s, t) ==
    IF t = <<>> THEN FALSE
    ELSE IF s = <<>> THEN TRUE
    ELSE IF Head(s) # Head(t) THEN Head(s) < Head(t)
    ELSE StrLess(Tail(s), Tail(t))

\* sub in s
Contains(s, sub) ==
    \E i \in 1..(Len(s) - Len(sub) + 1) :
        SubSeq(s, i, i + Len(sub) - 1) = sub

\* The keys in the order of the dict, not sorted.
KeysAsInserted(keys) == keys

\* One step of sorted(keys): k put before the first key greater than it.
RECURSIVE InsertSorted(_, _)
InsertSorted(sorted, k) ==
    IF sorted = <<>> THEN <<k>>
    ELSE IF StrLess(k, Head(sorted)) THEN <<k>> \o sorted
    ELSE <<Head(sorted)>> \o InsertSorted(Tail(sorted), k)

\* sorted(keys) for strings.
RECURSIVE SortedStrings(_)
SortedStrings(keys) ==
    IF keys = <<>> THEN <<>>
    ELSE InsertSorted(SortedStrings(SubSeq(keys, 1, Len(keys) - 1)),
                      keys[Len(keys)])

\* SUBMISSION_COLORS, lines 49-62.
SUBMISSION_COLORS ==
    <<[key |-> AMBER_APR, value |-> "KELLY_COLORS[11]"],
      [key |-> OPENMM_WEXPLORE, value |-> "KELLY_COLORS[7]"],
      [key |-> OPENMM_SOMD, value |-> "KELLY_COLORS[4]"],
      [key |-> GROMACS_EE, value |-> "KELLY_COLORS[3]"],
      [key |-> GROMACS_EE_FULLEQUIL, value |-> "KELLY_COLORS[10]"],
      [key |-> YANK_METHOD_PAPER_NAME, value |-> "KELLY_COLORS[9]"],
      [key |-> GROMACS_CT_NS_LONG, value |-> "KELLY_COLORS[6]"],
      [key |-> GROMACS_CT_NS, value |-> "KELLY_COLORS[1]"],
      [key |-> GROMACS_NS_JARZ_F, value |-> "TAB10_COLORS[0]"],
      [key |-> GROMACS_NS_JARZ_R, value |-> "TAB10_COLORS[1]"],
      [key |-> GROMACS_NS_GAUSS_F, value |-> "TAB10_COLORS[2]"],
      [key |-> GROMACS_NS_GAUSS_R, value |-> "TAB10_COLORS[4]"]>>

-----------------------------------------------------------------------------
(* Python dictionaries: a dict is the sequence of its items, in insertion   *)
(* order.                                                                   *)

DictKeys(d) == [i \in 1..Len(d) |-> d[i].key]

DictHas(d, k) == \E i \in 1..Len(d) : d[i].key = k

DictGet(d, k) == d[CHOOSE i \in 1..Len(d) : d[i].key = k].value

\* d[k] = v: a key already there keeps its place.
DictSet(d, k, v) ==
    IF DictHas(d, k)
    THEN [i \in 1..Len(d) |->
             IF d[i].key = k THEN [key |-> k, value |-> v] ELSE d[i]]
    ELSE Append(d, [key |-> k, value |-> v])

-----------------------------------------------------------------------------
(* The data.  A mean trajectory is a frame with the columns                 *)
(* N_energy_evaluations (in units of 10^5 evaluations), DG and CI (in       *)
(* hundredths of kcal/mol), std and bias.  Every mean trajectory has the    *)
(* same number of rows, one per simulation percentage.                      *)

system_names == <<"CB8-G3", "OA-G3", "OA-G6">>

SystemNameSet == {system_names[j] : j \in 1..Len(system_names)}

SystemIndex(sn) == CHOOSE j \in 1..Len(system_names) : system_names[j] = sn

\* A cheap calculation that converges quickly.
QuickTrajectory ==
    <<[N_energy_evaluations |-> 10, DG |-> -705, CI |-> 20,
       std |-> 2, bias |-> -1],
      [N_energy_evaluations |-> 30, DG |-> -700, CI |-> 10,
       std |-> 1, bias |-> 0]>>

\* An expensive calculation that is still biased at the end.
LongTrajectory ==
    <<[N_energy_evaluations |-> 20, DG |-> -730, CI |-> 30,
       std |-> 2, bias |-> 2],
      [N_energy_evaluations |-> 60, DG |-> -712, CI |-> 16,
       std |-> 1, bias |-> 1]>>

\* A calculation with no estimate (0.0) until its equilibration is over.
LateTrajectory ==
    <<[N_energy_evaluations |-> 15, DG |-> 0, CI |-> 0,
       std |-> 0, bias |-> 0],
      [N_energy_evaluations |-> 45, DG |-> -690, CI |-> 25,
       std |-> 3, bias |-> -2]>>

Trajectories == <<QuickTrajectory, LongTrajectory, LateTrajectory>>

\* The paper names a submission may carry, in the order of SUBMISSION_COLORS.
PaperNames ==
    <<AMBER_APR, OPENMM_WEXPLORE, OPENMM_SOMD, GROMACS_EE,
      GROMACS_EE_FULLEQUIL, GROMACS_CT_NS_LONG, GROMACS_CT_NS,
      GROMACS_NS_JARZ_F, GROMACS_NS_JARZ_R, GROMACS_NS_GAUSS_F,
      GROMACS_NS_GAUSS_R>>

\* submission.name of the submission with a paper name: the names the script
\* tests for, and for the other submissions a name it never tests for.
SubmissionName(paper_name) ==
    IF paper_name = GROMACS_EE THEN EXPANDED_ENSEMBLE_MBAR
    ELSE IF paper_name = OPENMM_WEXPLORE THEN WEXPLORE_RATE_RATIO
    ELSE paper_name

\* The k-th submission of a data set: submission.mean_free_energies(), by
\* system, is one of the trajectories, which one varying with the
\* submission, the system and the data set.
Submission(k, dataset) ==
    [name |-> SubmissionName(PaperNames[k]),
     paper_name |-> PaperNames[k],
     mean_free_energies |->
        [sn \in SystemNameSet |->
            Trajectories[1 + ((k + SystemIndex(sn) + dataset)
                                 % Len(Trajectories))]]]

\* The submissions with the paper names at the positions in chosen from the
\* k-th on, sorted by position.
RECURSIVE SubmissionList(_, _, _)
SubmissionList(chosen, k, dataset) ==
    IF k > Len(PaperNames) THEN <<>>
    ELSE (IF k \in chosen THEN <<Submission(k, dataset)>> ELSE <<>>)
         \o SubmissionList(chosen, k + 1, dataset)

Reversed(s) == [i \in 1..Len(s) |-> s[Len(s) + 1 - i]]

-----------------------------------------------------------------------------
(* The reference calculation.  YankSamplingAnalysis is imported from        *)
(* pkganalysis.sampling; what the script relies on is modelled here.        *)

\* yank_analysis.get_free_energies_from_energy_evaluations(
\*     n_energy_evaluations, system_name=..., mean_trajectory=True):
\* the reference mean trajectory up to a cost, with as many rows as any
\* other mean trajectory; the longer the calculation, the narrower its
\* final confidence interval and the smaller its final bias.
get_free_energies_from_energy_evaluations(n_energy_evaluations, system_name) ==
    <<[N_energy_evaluations |-> n_energy_evaluations \div 2, DG |-> -702,
       CI |-> 24, std |-> 2, bias |-> 1],
      [N_energy_evaluations |-> n_energy_evaluations, DG |-> -700,
       CI |-> IF n_energy_evaluations >= 45 THEN 8 ELSE 14,
       std |-> 1,
       bias |-> IF n_energy_evaluations >= 45 THEN 0 ELSE 1]>>

-----------------------------------------------------------------------------
(* plot_mean_free_energy, plot_mean_data and plot_submissions_trajectory.   *)
(* An axes is the list of the draw calls made on it (plot, fill_between),   *)
(* each with its label, color, zorder and data.  An optional argument is a  *)
(* sequence: <<>> for None, <<v>> for the value v.  Labels, titles, tick    *)
(* labels, y limits, the grid and the twin bias axis (lines 353-392) are    *)
(* rendering calls on constants and on values of the plotting library and   *)
(* are not kept; the x limits are.                                          *)

\* N_ENERGY_EVALUATIONS_SCALE = 1e6, line 64, in units of 10^5 evaluations.
N_ENERGY_EVALUATIONS_SCALE == 10

\* np.inf, line 253: greater than any number of energy evaluations.
np_inf == 2147483647

Max(a, b) == IF a >= b THEN a ELSE b
Min(a, b) == IF a <= b THEN a ELSE b

\* The line zorder raised by less than there can be methods.
LineZorderTen(zorder) ==
    IF zorder # <<>> THEN <<zorder[1] + 10>> ELSE zorder

\* Lines 194-196: if zorder is not None: zorder += 20.
line_zorder(zorder) ==
    IF zorder # <<>> THEN <<zorder[1] + 20>> ELSE zorder

\* plot_mean_free_energy, lines 168-198, as plot_mean_data calls it: x is
\* 'N energy evaluations', start is given, stride is 1, plot_ci is True.
\* The draw calls it adds to ax.
plot_mean_free_energy(md, ax, color_mean, color_ci, zorder, start, label) ==
    LET n == Len(md) - start + 1
        x == [i \in 1..n |->
                Frac(md[start + i - 1].N_energy_evaluations,
                     N_ENERGY_EVALUATIONS_SCALE)]
        mean_dg == [i \in 1..n |-> md[start + i - 1].DG]
        sem_dg == [i \in 1..n |-> md[start + i - 1].CI]
        shade == [call |-> "fill_between", label |-> <<>>,
                  color |-> color_ci, zorder |-> zorder, x |-> x,
                  y |-> [i \in 1..n |-> mean_dg[i] + sem_dg[i]],
                  y2 |-> [i \in 1..n |-> mean_dg[i] - sem_dg[i]]]
        line == [call |-> "plot", label |-> label, color |-> color_mean,
                 zorder |-> line_zorder(zorder), x |-> x, y |-> mean_dg,
                 y2 |-> <<>>]
    IN  ax \o <<shade, line>>

\* axes[row].plot(x[first:] / scale, column[first:], color=color, alpha=0.8,
\*                zorder=zorder, label=label), lines 220-226.
ColumnLine(md, first, values, color, zorder, label) ==
    LET n == Len(md) - first + 1
    IN  [call |-> "plot", label |-> label, color |-> color,
         zorder |-> zorder,
         x |-> [i \in 1..n |->
                   Frac(md[first + i - 1].N_energy_evaluations,
                        N_ENERGY_EVALUATIONS_SCALE)],
         y |-> [i \in 1..n |-> values[first + i - 1]],
         y2 |-> <<>>]

\* plot_mean_data, lines 201-226, on the column `axes` of the figure (a
\* function from the row to the axes), with x = 'N energy evaluations'.
\* np.nonzero(...)[0][0] raises IndexError on a trajectory of zeros.
plot_mean_data(md, axes, color, label, zorder, std_too, bias_too) ==
    LET first == first_nonzero_idx(md)
    IN  IF first = 0
        THEN [raised |-> "IndexError", axes |-> axes]
        ELSE [raised |-> "",
              axes |->
                [row \in DOMAIN axes |->
                    IF row = 0
                    THEN plot_mean_free_energy(md, axes[0], color, color,
                                               zorder, first, label)
                    ELSE IF row = 1 /\ std_too
                    THEN Append(axes[1],
                                ColumnLine(md, first,
                                           [i \in 1..Len(md) |-> md[i].std],
                                           color, zorder, label))
                    ELSE IF row = 2 /\ bias_too
                    THEN Append(axes[2],
                                ColumnLine(md, first,
                                           [i \in 1..Len(md) |-> md[i].bias],
                                           color, zorder, label))
                    ELSE axes[row]]]

\* Lines 270-285: the systems of one submission added to all_mean_data, and
\* the largest and smallest final cost of each system kept up to date.
\* .values[-1] of a system without rows raises IndexError.
RECURSIVE CollectSystems(_, _, _)
CollectSystems(acc, submission, j) ==
    IF j > Len(system_names) \/ acc.raised # "" THEN acc
    ELSE LET system_name == system_names[j]
         IN  IF /\ submission.name = EXPANDED_ENSEMBLE_MBAR
                /\ system_name = "CB8-G3"
             THEN CollectSystems(acc, submission, j + 1)
             ELSE IF submission.mean_free_energies[system_name] = <<>>
             THEN [acc EXCEPT !.raised = "IndexError"]
             ELSE LET system_mean_data ==
                          submission.mean_free_energies[system_name]
                      n_energy_evaluations ==
                          system_mean_data[Len(system_mean_data)]
                              .N_energy_evaluations
                      of_method ==
                          DictGet(acc.all_mean_data, submission.paper_name)
                  IN  CollectSystems(
                        [raised |-> "",
                         all_mean_data |->
                            DictSet(acc.all_mean_data, submission.paper_name,
                                    DictSet(of_method, system_name,
                                            system_mean_data)),
                         max_n_energy_evaluations |->
                            [acc.max_n_energy_evaluations EXCEPT
                                ![system_name] = Max(@, n_energy_evaluations)],
                         min_n_energy_evaluations |->
                            [acc.min_n_energy_evaluations EXCEPT
                                ![system_name] = Min(@, n_energy_evaluations)]],
                        submission, j + 1)

\* Lines 264-285.
RECURSIVE CollectSubmissions(_, _)
CollectSubmissions(acc, subs) ==
    IF subs = <<>> \/ acc.raised # "" THEN acc
    ELSE CollectSubmissions(
            CollectSystems(
                [acc EXCEPT !.all_mean_data =
                                DictSet(@, Head(subs).paper_name, <<>>)],
                Head(subs), 1),
            Tail(subs))

\* Lines 288-293: the reference added under YANK_METHOD_PAPER_NAME, cut at
\* the largest final cost of each system.
RECURSIVE ReferenceSystems(_, _)
ReferenceSystems(acc, j) ==
    IF j > Len(system_names) THEN <<>>
    ELSE <<[key |-> system_names[j],
            value |-> get_free_energies_from_energy_evaluations(
                          acc.max_n_energy_evaluations[system_names[j]],
                          system_names[j])]>>
         \o ReferenceSystems(acc, j + 1)

AddReference(acc, yank) ==
    IF yank /\ acc.raised = ""
    THEN [acc EXCEPT !.all_mean_data =
                         DictSet(@, YANK_METHOD_PAPER_NAME,
                                 ReferenceSystems(acc, 1))]
    ELSE acc

\* np.searchsorted(a, v, side='right') for an ascending a: the number of
\* elements not greater than v.
searchsorted_right(a, v) == Cardinality({i \in 1..Len(a) : a[i] <= v})

\* Lines 303-306: the mean of the CIs of the rows whose cost does not exceed
\* min_n_energy_evaluations; np.mean of no value is nan.
MeanCI(system_mean_data, min_n) ==
    LET last_idx ==
            searchsorted_right(
                [i \in 1..Len(system_mean_data) |->
                    system_mean_data[i].N_energy_evaluations], min_n)
        cis == [i \in 1..last_idx |-> system_mean_data[i].CI]
    IN  IF last_idx = 0 THEN <<0, 0>> ELSE Frac(SeqSum(cis), last_idx)

\* Lines 299-306: methods_cis[system_name], the dict from the methods that
\* have the system to their mean CI, in the order of all_mean_data.
RECURSIVE MethodsCis(_, _, _)
MethodsCis(all_mean_data, min_n, system_name) ==
    IF all_mean_data = <<>> THEN <<>>
    ELSE LET method == Head(all_mean_data)
             rest == MethodsCis(Tail(all_mean_data), min_n, system_name)
         IN  IF DictHas(method.value, system_name)
             THEN <<[key |-> method.key,
                     value |-> MeanCI(DictGet(method.value, system_name),
                                      min_n)]>> \o rest
             ELSE rest

\* One step of sorted(..., key=...): the item put before the first item
\* with a greater key, so after the items with an equal key (stable).
RECURSIVE InsertByValue(_, _)
InsertByValue(sorted, item) ==
    IF sorted = <<>> THEN <<item>>
    ELSE IF FracLess(item.value, Head(sorted).value) THEN <<item>> \o sorted
    ELSE <<Head(sorted)>> \o InsertByValue(Tail(sorted), item)

\* sorted(..., key=...) on keys that are numbers.
RECURSIVE SortedByValue(_)
SortedByValue(items) ==
    IF items = <<>> THEN <<>>
    ELSE InsertByValue(SortedByValue(SubSeq(items, 1, Len(items) - 1)),
                       items[Len(items)])

\* Lines 310-313: zorders[system_name], the dict from the method to its
\* place (from 0) among the methods sorted by mean CI.
Zorders(system_cis) ==
    LET ordered_methods == SortedByValue(system_cis)
    IN  [i \in 1..Len(ordered_methods) |->
            [key |-> ordered_methods[i].key, value |-> i - 1]]

\* Four times the cost of the first row of the trajectory.
CalibrationCostOfFirstRow(md, first) == md[1].N_energy_evaluations * 4

\* Line 347: mean_data['N energy evaluations'].values[first_nonzero_idx] * 4
calibration_cost(md, first) == md[first].N_energy_evaluations * 4

\* Lines 324-351, for the systems of one method from the item-th on.  st is
\* the figure so far; ctx holds zorders and the plot_std, plot_bias flags.
RECURSIVE PlotSystems(_, _, _, _, _)
PlotSystems(st, ctx, method_name, items, item) ==
    IF item > Len(items) \/ st.raised # "" THEN st
    ELSE
    LET system_name == items[item].key
        system_mean_data == items[item].value
        ax_idx == SystemIndex(system_name) - 1
        submission_color == DictGet(SUBMISSION_COLORS, method_name)
        column == [row \in DOMAIN st.axes |-> st.axes[row][ax_idx]]
        WithColumn(col) ==
            [row \in DOMAIN st.axes |->
                [st.axes[row] EXCEPT ![ax_idx] = col[row]]]
    IN  IF method_name = GROMACS_CT_NS_LONG /\ system_name # "CB8-G3"
        THEN \* Just add the label.
             PlotSystems(
                [st EXCEPT !.axes[0][ax_idx] =
                    Append(@, [call |-> "plot", label |-> method_name,
                               color |-> submission_color, zorder |-> <<>>,
                               x |-> <<>>, y |-> <<>>, y2 |-> <<>>])],
                ctx, method_name, items, item + 1)
        ELSE
        LET n_energy_evaluations ==
                system_mean_data[Len(system_mean_data)].N_energy_evaluations
            max_n == [st.max_n_energy_evaluations EXCEPT
                         ![system_name] = Max(@, n_energy_evaluations)]
            zorder == DictGet(ctx.zorders[system_name], method_name)
            drawn == plot_mean_data(system_mean_data, column, submission_color,
                                    method_name, <<zorder>>,
                                    ctx.plot_std, ctx.plot_bias)
            st1 == [raised |-> drawn.raised,
                    axes |-> WithColumn(drawn.axes),
                    max_n_energy_evaluations |-> max_n]
        IN  IF drawn.raised # "" \/ ~Contains(method_name, STR_EE)
            THEN PlotSystems(st1, ctx, method_name, items, item + 1)
            ELSE \* Plot adding full cost of Wang-Landau equilibration.
            LET first == first_nonzero_idx(system_mean_data)
                shifted ==
                    [i \in 1..Len(system_mean_data) |->
                        [system_mean_data[i] EXCEPT
                            !.N_energy_evaluations =
                                @ + calibration_cost(system_mean_data,
                                                     first)]]
                label == method_name \o FULLEQUIL_SUFFIX
            IN  IF ~DictHas(SUBMISSION_COLORS, label)
                THEN [st1 EXCEPT !.raised = "KeyError"]
                ELSE LET again ==
                             plot_mean_data(shifted, drawn.axes,
                                            DictGet(SUBMISSION_COLORS, label),
                                            label, <<zorder>>,
                                            ctx.plot_std, ctx.plot_bias)
                     IN  PlotSystems(
                            [st1 EXCEPT !.raised = again.raised,
                                        !.axes = WithColumn(again.axes)],
                            ctx, method_name, items, item + 1)

\* Lines 319-351: the methods in sorted order; SUBMISSION_COLORS[method_name]
\* raises KeyError for a method that has no color.
RECURSIVE PlotMethods(_, _, _, _)
PlotMethods(st, ctx, all_mean_data, names) ==
    IF names = <<>> \/ st.raised # "" THEN st
    ELSE IF ~DictHas(SUBMISSION_COLORS, Head(names))
    THEN [st EXCEPT !.raised = "KeyError"]
    ELSE PlotMethods(
            PlotSystems(st, ctx, Head(names),
                        DictGet(all_mean_data, Head(names)), 1),
            ctx, all_mean_data, Tail(names))

\* Lines 252-293: all_mean_data and the largest and smallest final cost of
\* each system, after the submissions and the reference have been added.
Collected(subs, yank) ==
    AddReference(
        CollectSubmissions(
            [raised |-> "",
             all_mean_data |-> <<>>,
             max_n_energy_evaluations |-> [sn \in SystemNameSet |-> 0],
             min_n_energy_evaluations |-> [sn \in SystemNameSet |-> np_inf]],
            subs),
        yank)

\* plot_submissions_trajectory, lines 247-392, on empty axes of n_rows rows
\* and one column per system: the draw calls made, the x limits set, and the
\* exception that ended the call, if one did.
plot_submissions_trajectory(subs, yank, n_rows, std_too, bias_too) ==
    LET collected == Collected(subs, yank)
        zorders ==
            [sn \in SystemNameSet |->
                Zorders(MethodsCis(collected.all_mean_data,
                                   collected.min_n_energy_evaluations[sn],
                                   sn))]
        empty_axes ==
            [row \in 0..(n_rows - 1) |->
                [col \in 0..(Len(system_names) - 1) |-> <<>>]]
        plotted ==
            PlotMethods(
                [raised |-> "", axes |-> empty_axes,
                 max_n_energy_evaluations |->
                    collected.max_n_energy_evaluations],
                [zorders |-> zorders, plot_std |-> std_too,
                 plot_bias |-> bias_too],
                collected.all_mean_data,
                SortedStrings(DictKeys(collected.all_mean_data)))
    IN  IF collected.raised # ""
        THEN [raised |-> collected.raised, axes |-> empty_axes,
              xlim |-> <<>>]
        ELSE [raised |-> plotted.raised,
              axes |-> plotted.axes,
              xlim |-> IF plotted.raised # "" THEN <<>>
                       ELSE [j \in 1..Len(system_names) |->
                                Frac(plotted.max_n_energy_evaluations[
                                         system_names[j]],
                                     N_ENERGY_EVALUATIONS_SCALE)]]

\* The submissions given: few of the methods, or all but few of them, in
\* sorted or in reverse order, from one of the data sets.
MaxFew == 1

SubmissionListsOf(few) ==
    LET all == 1..Len(PaperNames)
        chosen == {c \in SUBSET all :
                      \/ Cardinality(c) <= few
                      \/ Cardinality(c) >= Len(PaperNames) - few}
        sorted == {SubmissionList(c, 1, d) :
                      c \in chosen, d \in 0..(Len(Trajectories) - 1)}
    IN  sorted \cup {Reversed(l) : l \in sorted}

SubmissionLists == SubmissionListsOf(MaxFew)

InitPlot ==
    /\ submissions \in SubmissionLists
    /\ yank_analysis \in BOOLEAN
    /\ plot_std \in BOOLEAN
    /\ plot_bias = plot_std
    /\ figure = [raised |-> "", axes |-> <<>>, xlim |-> <<>>]
    /\ plot_pc = "call"
    /\ IdleFit
    /\ IdleRound
    /\ IdleEff
    /\ IdleTable
    /\ IdleMain

\* The call, on a fresh figure with three rows of axes when the standard
\* deviation and the bias are plotted and with one row when they are not.
PlotSubmissionsTrajectory ==
    /\ plot_pc = "call"
    /\ figure' = plot_submissions_trajectory(
                     submissions, yank_analysis,
                     IF plot_std \/ plot_bias THEN 3 ELSE 1,
                     plot_std, plot_bias)
    /\ plot_pc' = "done"
    /\ UNCHANGED <<submissions, yank_analysis, plot_std, plot_bias,
                   fitVars, roundVars, effVars, tableVars, mainVars>>

NextPlot == PlotSubmissionsTrajectory

SpecPlot == InitPlot /\ [][NextPlot]_vars

-----------------------------------------------------------------------------
(* print_relative_efficiency_table.  An entry of the table is a string;    *)
(* the string that format() makes of numbers is kept as its template and   *)
(* the numbers formatted, [text |-> template, args |-> numbers], and a     *)
(* string written out in the code has no args.                             *)

\* '\makecell{$\Delta$ G \\ $[$kcal/mol$]$}'
DG_COLUMN == <<92, 109, 97, 107, 101, 99, 101, 108, 108, 123, 36, 92, 68,
    101, 108, 116, 97, 36, 32, 71, 32, 92, 92, 32, 36, 91, 36, 107, 99, 97,
    108, 47, 109, 111, 108, 36, 93, 36, 125>>
\* '\makecell{n eval \\ $[$M$]$}'
N_EVAL_COLUMN == <<92, 109, 97, 107, 101, 99, 101, 108, 108, 123, 110, 32,
    101, 118, 97, 108, 32, 92, 92, 32, 36, 91, 36, 77, 36, 93, 36, 125>>
\* '$e_{\text{std}}$'
E_STD == <<36, 101, 95, 123, 92, 116, 101, 120, 116, 123, 115, 116, 100,
    125, 125, 36>>
\* '$e_{|\text{bias}|}$'
E_ABS_BIAS == <<36, 101, 95, 123, 124, 92, 116, 101, 120, 116, 123, 98, 105,
    97, 115, 125, 124, 125, 36>>
\* '$e_{\text{RMSD}}$'
E_RMSD == <<36, 101, 95, 123, 92, 116, 101, 120, 116, 123, 82, 77, 83, 68,
    125, 125, 36>>
\* 'std'
STR_STD == <<115, 116, 100>>

\* Lines 897-898.
statistic_names == <<E_STD, E_ABS_BIAS, E_RMSD>>
column_names == <<DG_COLUMN, N_EVAL_COLUMN>> \o statistic_names

\* yank_analysis.get_free_energies_from_iteration(YANK_N_ITERATIONS,
\*     system_name=..., mean_trajectory=True): the whole mean trajectory of
\* the reference calculation, one row per quarter of the calculation.
get_free_energies_from_iteration(system_name) ==
    <<[Simulation_percentage |-> 25, N_energy_evaluations |-> 25,
       DG |-> -706, CI |-> 30, std |-> 3, bias |-> -6],
      [Simulation_percentage |-> 50, N_energy_evaluations |-> 50,
       DG |-> -702, CI |-> 20, std |-> 2, bias |-> -2],
      [Simulation_percentage |-> 75, N_energy_evaluations |-> 75,
       DG |-> -701, CI |-> 12, std |-> 2, bias |-> -1],
      [Simulation_percentage |-> 100, N_energy_evaluations |-> 100,
       DG |-> -700, CI |-> 8, std |-> 1, bias |-> 0]>>

Entry(text, args) == [text |-> text, args |-> args]

RECURSIVE Pow(_, _)
Pow(b, k) == IF k = 0 THEN 1 ELSE b * Pow(b, k - 1)

\* e < 0.09 for a geometric mean e = <<n, d, r>>, the r-th root of n/d;
\* a comparison with nan or with inf on the left is false.
LessThan009(e) ==
    IF e = NaN \/ e[2] = 0 THEN FALSE
    ELSE PosLess(e[1], e[2], Pow(9, e[3]), Pow(100, e[3]))

\* Line 947.
efficiencies_format(e) == IF LessThan009(e) THEN "{:.2f}" ELSE "{:.1f}"

\* An entry made of the efficiencies whatever they are.
DataEntryOfAnyNumber(statistic_name, relative_efficiency, corrected_efficiency) ==
    Entry(efficiencies_format(relative_efficiency),
          <<relative_efficiency>>)

\* Lines 949-956.
data_entry(statistic_name, relative_efficiency, corrected_efficiency) ==
    IF relative_efficiency = NaN
    THEN Entry("", <<>>)
    ELSE IF ~Contains(statistic_name, STR_STD)
    THEN Entry(efficiencies_format(relative_efficiency) \o " ("
                   \o efficiencies_format(corrected_efficiency) \o ")",
               <<relative_efficiency, corrected_efficiency>>)
    ELSE \* Standard deviation efficiency is not affected by the bias.
         Entry(efficiencies_format(relative_efficiency),
               <<relative_efficiency>>)

\* '{} $\pm$ {}'.format(dg, dg_CI) after the reduction to the first
\* significant digit, lines 928-933 and 966-971; the final values of the
\* trajectories are no decimal ties, the reduction has one outcome.
dg_entry(system_mean_data) ==
    LET last == system_mean_data[Len(system_mean_data)]
        reduced == CHOOSE r \in
                       reduce_to_first_significant_digit(last.DG, last.CI) :
                       TRUE
    IN  [raised |-> IF reduced.raised THEN "ValueError" ELSE "",
         entry |-> Entry("{} $\\pm$ {}",
                         <<reduced.quantity, reduced.uncertainty>>)]

\* str(int(round(n_force_eval / 1e6))), lines 934 and 970: a half is held
\* exactly by a float and goes to the even neighbour.
n_force_eval_entry(system_mean_data) ==
    LET n_force_eval ==
            system_mean_data[Len(system_mean_data)].N_energy_evaluations
        millions == CHOOSE m \in
                        round((n_force_eval * 100)
                                  \div N_ENERGY_EVALUATIONS_SCALE, 0) : TRUE
    IN  Entry("{}", <<millions \div 100>>)

\* efficiency_table[key].append(entry)
TableAppend(table, key, entry) ==
    DictSet(table, key, Append(DictGet(table, key), entry))

\* Lines 941-957: the three efficiency entries of a system added.
RECURSIVE AddEfficiencies(_, _, _, _, _)
AddEfficiencies(table, system_name, relative, corrected, statistic_idx) ==
    IF statistic_idx > Len(statistic_names) THEN table
    ELSE AddEfficiencies(
            TableAppend(table,
                        <<system_name, statistic_names[statistic_idx]>>,
                        data_entry(statistic_names[statistic_idx],
                                   relative[statistic_idx],
                                   corrected[statistic_idx])),
            system_name, relative, corrected, statistic_idx + 1)

\* Lines 909-957: the entries of one submission, for the systems from the
\* j-th on.  st is [raised, methods, efficiency_table].
RECURSIVE AddSystems(_, _, _)
AddSystems(st, submission, j) ==
    IF j > Len(system_names) \/ st.raised # "" THEN st
    ELSE
    LET system_name == system_names[j]
        WithEntries(dg, n_force_eval, relative, corrected) ==
            AddEfficiencies(
                TableAppend(
                    TableAppend(st.efficiency_table,
                                <<system_name, column_names[1]>>, dg),
                    <<system_name, column_names[2]>>, n_force_eval),
                system_name, relative, corrected, 1)
    IN  IF \/ /\ submission.name = EXPANDED_ENSEMBLE_MBAR
              /\ system_name = "CB8-G3"
           \/ /\ submission.paper_name = GROMACS_CT_NS_LONG
              /\ system_name # "CB8-G3"
        THEN AddSystems(
                [st EXCEPT !.efficiency_table =
                    WithEntries(Entry("", <<>>), Entry("", <<>>),
                                <<NaN, NaN, NaN>>, <<NaN, NaN, NaN>>)],
                submission, j + 1)
        ELSE
        LET system_mean_data == submission.mean_free_energies[system_name]
            n_energy_evaluations ==
                system_mean_data[Len(system_mean_data)].N_energy_evaluations
            reference ==
                get_free_energies_from_energy_evaluations(
                    n_energy_evaluations, system_name)
            computed ==
                compute_all_mean_relative_efficiencies(
                    system_mean_data, (1 :> reference), 1)
            dg == dg_entry(system_mean_data)
        IN  IF computed.ret.raised
            THEN [st EXCEPT !.raised = "IndexError"]
            ELSE IF dg.raised # ""
            THEN [st EXCEPT !.raised = dg.raised]
            ELSE AddSystems(
                    [st EXCEPT !.efficiency_table =
                        WithEntries(dg.entry,
                                    n_force_eval_entry(system_mean_data),
                                    computed.ret.relative,
                                    computed.ret.corrected)],
                    submission, j + 1)

\* Lines 904-957.
RECURSIVE AddSubmissions(_, _)
AddSubmissions(st, subs) ==
    IF subs = <<>> \/ st.raised # "" THEN st
    ELSE AddSubmissions(
            AddSystems([st EXCEPT !.methods =
                                      Append(@, Head(subs).paper_name)],
                       Head(subs), 1),
            Tail(subs))

\* The row of the reference put before the rows of the submissions.
RECURSIVE AddReferenceRowFirst(_, _)
AddReferenceRowFirst(st, j) ==
    IF j > Len(system_names) \/ st.raised # "" THEN
        IF st.raised # "" THEN st
        ELSE [st EXCEPT !.methods = <<YANK_METHOD_PAPER_NAME>> \o @]
    ELSE
    LET system_name == system_names[j]
        yank_mean_data == get_free_energies_from_iteration(system_name)
        dg == dg_entry(yank_mean_data)
        First(table, key, entry) ==
            DictSet(table, key, <<entry>> \o DictGet(table, key))
    IN  IF dg.raised # ""
        THEN [st EXCEPT !.raised = dg.raised]
        ELSE AddReferenceRowFirst(
                [st EXCEPT !.efficiency_table =
                    First(First(First(First(First(@,
                        <<system_name, column_names[1]>>, dg.entry),
                        <<system_name, column_names[2]>>,
                        n_force_eval_entry(yank_mean_data)),
                        <<system_name, statistic_names[1]>>,
                        Entry("1.0", <<>>)),
                        <<system_name, statistic_names[2]>>,
                        Entry("1.0", <<>>)),
                        <<system_name, statistic_names[3]>>,
                        Entry("1.0", <<>>))],
                j + 1)

\* Lines 959-976: the row of the reference calculation, for the systems
\* from the j-th on.  The loop of lines 975-976 appends '1.0' once for each
\* system and statistic, after the loop of lines 963-972; the two loops
\* write to different columns.
RECURSIVE add_reference_row(_, _)
add_reference_row(st, j) ==
    IF j > Len(system_names) \/ st.raised # "" THEN
        IF st.raised # "" THEN st
        ELSE [st EXCEPT !.methods = Append(@, YANK_METHOD_PAPER_NAME)]
    ELSE
    LET system_name == system_names[j]
        yank_mean_data == get_free_energies_from_iteration(system_name)
        dg == dg_entry(yank_mean_data)
    IN  IF dg.raised # ""
        THEN [st EXCEPT !.raised = dg.raised]
        ELSE add_reference_row(
                [st EXCEPT !.efficiency_table =
                    TableAppend(TableAppend(TableAppend(TableAppend(
                    TableAppend(@,
                        <<system_name, column_names[1]>>, dg.entry),
                        <<system_name, column_names[2]>>,
                        n_force_eval_entry(yank_mean_data)),
                        <<system_name, statistic_names[1]>>,
                        Entry("1.0", <<>>)),
                        <<system_name, statistic_names[2]>>,
                        Entry("1.0", <<>>)),
                        <<system_name, statistic_names[3]>>,
                        Entry("1.0", <<>>))],
                j + 1)

\* Lines 900-902: a column for every system and column name, in the order
\* of itertools.product.
EmptyTable ==
    [k \in 1..(Len(system_names) * Len(column_names)) |->
        [key |-> <<system_names[1 + ((k - 1) \div Len(column_names))],
                   column_names[1 + ((k - 1) % Len(column_names))]>>,
         value |-> <<>>]]

\* print_relative_efficiency_table, lines 891-997: the index and the
\* columns of the table printed, or the exception raised.
print_relative_efficiency_table(subs) ==
    add_reference_row(
        AddSubmissions([raised |-> "", methods |-> <<>>,
                        efficiency_table |-> EmptyTable], subs),
        1)

InitTable ==
    /\ submissions \in SubmissionLists
    /\ yank_analysis = TRUE
    /\ plot_std = FALSE
    /\ plot_bias = FALSE
    /\ figure = [raised |-> "", axes |-> <<>>, xlim |-> <<>>]
    /\ plot_pc = "idle"
    /\ methods = <<>>
    /\ efficiency_table = <<>>
    /\ table_pc = "call"
    /\ IdleFit
    /\ IdleRound
    /\ IdleEff
    /\ IdleMain

PrintRelativeEfficiencyTable ==
    /\ table_pc = "call"
    /\ LET printed == print_relative_efficiency_table(submissions)
       IN  /\ methods' = printed.methods
           /\ efficiency_table' = printed.efficiency_table
           /\ table_pc' = IF printed.raised = "" THEN "done" ELSE "raised"
    /\ UNCHANGED <<plotVars, fitVars, roundVars, effVars, mainVars>>

NextTable == PrintRelativeEfficiencyTable

SpecTable == InitTable /\ [][NextTable]_vars

-----------------------------------------------------------------------------
(* The figure and the table of the same submissions, in the order of lines *)
(* 1274-1277 of the script: the trajectories are plotted, then the table   *)
(* is printed.                                                             *)

InitReport ==
    /\ submissions \in SubmissionLists
    /\ yank_analysis = TRUE
    /\ plot_std = FALSE
    /\ plot_bias = FALSE
    /\ figure = [raised |-> "", axes |-> <<>>, xlim |-> <<>>]
    /\ plot_pc = "call"
    /\ methods = <<>>
    /\ efficiency_table = <<>>
    /\ table_pc = "call"
    /\ IdleFit
    /\ IdleRound
    /\ IdleEff
    /\ IdleMain

PrintTableAfterFigure ==
    /\ plot_pc = "done"
    /\ PrintRelativeEfficiencyTable

NextReport == PlotSubmissionsTrajectory \/ PrintTableAfterFigure

SpecReport == InitReport /\ [][NextReport]_vars

-----------------------------------------------------------------------------
(* The main script, lines 1222-1290, and plot_all_entries_trajectory.      *)

\* The paper name of the submission named 'Langevin/Virtual Bond/TI'
\* (line 1249: "Remove AMBER/TI").
\* 'AMBER/TI'
AMBER_TI == <<65, 77, 66, 69, 82, 47, 84, 73>>

\* The statements the script executes, in the order of the file:
\* lines 1230-1235, 1238-1241, 1244-1245, 1248, 1250, 1266, 1274, 1290.
Statements ==
    <<"load_reference", "fit_reference", "read_user_map",
      "load_submissions", "filter_submissions", "sort_submissions",
      "plot_all_entries_trajectory", "exit">>

\* The figure rendered right after the reference is loaded.
StatementAfterPlotEarly(statement) ==
    IF statement = "load_reference" THEN "plot_all_entries_trajectory"
    ELSE IF statement = "plot_all_entries_trajectory" THEN "fit_reference"
    ELSE IF statement = "sort_submissions" THEN "exit"
    ELSE IF statement = "exit" THEN "exited"
    ELSE Statements[1 + CHOOSE i \in 1..Len(Statements) :
                            Statements[i] = statement]

\* The statement that follows a statement of the script.
statement_after(statement) ==
    IF statement = "exit" THEN "exited"
    ELSE Statements[1 + CHOOSE i \in 1..Len(Statements) :
                            Statements[i] = statement]

\* One step of sorted(submissions, key=lambda s: s.paper_name): stable.
RECURSIVE InsertByPaperName(_, _)
InsertByPaperName(sorted, submission) ==
    IF sorted = <<>> THEN <<submission>>
    ELSE IF StrLess(submission.paper_name, Head(sorted).paper_name)
         THEN <<submission>> \o sorted
    ELSE <<Head(sorted)>> \o InsertByPaperName(Tail(sorted), submission)

\* sorted(submissions, key=lambda s: s.paper_name), line 1266.
RECURSIVE SortedByPaperName(_)
SortedByPaperName(subs) ==
    IF subs = <<>> THEN <<>>
    ELSE InsertByPaperName(SortedByPaperName(SubSeq(subs, 1, Len(subs) - 1)),
                           subs[Len(subs)])

\* plot_all_entries_trajectory(submissions, yank_analysis, zoomed), lines
\* 395-455: the figure drawn, with its legend, and the file it is saved to;
\* an exception leaves the function before the legend and the file.
plot_all_entries_trajectory(subs, yank, zoomed) ==
    LET \* Remove nonequilibrium-switching calculations with
        \* single-direction estimators.
        bidirectional ==
            Select(subs,
                   {i \in 1..Len(subs) :
                       /\ ~Contains(subs[i].paper_name, STR_JARZ)
                       /\ ~Contains(subs[i].paper_name, STR_GAUSS)})
        \* Optionally, remove WExplore.
        plotted ==
            IF zoomed
            THEN Select(bidirectional,
                        {i \in 1..Len(bidirectional) :
                            bidirectional[i].name # WEXPLORE_RATE_RATIO})
            ELSE bidirectional
        drawn == plot_submissions_trajectory(plotted, yank, 3, TRUE, TRUE)
    IN  [raised |-> drawn.raised, axes |-> drawn.axes, xlim |-> drawn.xlim,
         legend |-> drawn.raised = "",
         saved |-> IF drawn.raised # "" THEN ""
                   ELSE IF zoomed
                        THEN "Figure2-free_energy_trajectories_zoomed.pdf"
                        ELSE "Figure2-free_energy_trajectories.pdf"]

\* The submission in SUBMISSIONS_DIR_PATH that the script removes.
TISubmission ==
    [name |-> LANGEVIN_VIRTUAL_BOND_TI,
     paper_name |-> AMBER_TI,
     mean_free_energies |-> [sn \in SystemNameSet |-> LongTrajectory]]

\* What load_submissions may find: the submissions in the order of the
\* directory listing, with or without the one to remove.
FilesFound ==
    SubmissionLists
        \cup {<<TISubmission>> \o l : l \in SubmissionLists}
        \cup {l \o <<TISubmission>> : l \in SubmissionLists}

NoFigure == [raised |-> "", axes |-> <<>>, xlim |-> <<>>]

InitMain ==
    /\ files \in FilesFound
    /\ user_map = FALSE
    /\ reference_efficiencies = <<>>
    /\ main_pc = Statements[1]
    /\ executed = <<>>
    /\ submissions = <<>>
    /\ yank_analysis = FALSE
    /\ plot_std = FALSE
    /\ plot_bias = FALSE
    /\ figure = NoFigure
    /\ plot_pc = "idle"
    /\ IdleFit
    /\ IdleRound
    /\ IdleEff
    /\ IdleTable

\* A statement is executed: the next one is the one after it, and one that
\* raises ends the script.
Step(statement, raised) ==
    /\ main_pc = statement
    /\ executed' = Append(executed, statement)
    /\ main_pc' = IF raised THEN "raised" ELSE statement_after(statement)
    /\ UNCHANGED <<files, plot_std, plot_bias, plot_pc,
                   fitVars, roundVars, effVars, tableVars>>

\* Lines 1230-1235: yank_analysis = YankSamplingAnalysis(...).
LoadReference ==
    /\ Step("load_reference", FALSE)
    /\ yank_analysis' = TRUE
    /\ UNCHANGED <<user_map, reference_efficiencies, submissions, figure>>

\* Lines 1238-1241: fit_efficiency on the mean trajectory of each system;
\* the name yank_analysis is not defined before line 1230.
FitReference ==
    /\ Step("fit_reference", ~yank_analysis)
    /\ reference_efficiencies' =
           IF ~yank_analysis THEN reference_efficiencies
           ELSE [sn \in SystemNameSet |->
                    fit_efficiency(get_free_energies_from_iteration(sn),
                                   TRUE).ret.efficiency]
    /\ UNCHANGED <<yank_analysis, user_map, submissions, figure>>

\* Lines 1244-1245.
ReadUserMap ==
    /\ Step("read_user_map", FALSE)
    /\ user_map' = TRUE
    /\ UNCHANGED <<yank_analysis, reference_efficiencies, submissions,
                   figure>>

\* Line 1248: load_submissions(SamplingSubmission, ..., user_map).
LoadSubmissions ==
    /\ Step("load_submissions", ~user_map)
    /\ submissions' = IF user_map THEN files ELSE submissions
    /\ UNCHANGED <<yank_analysis, user_map, reference_efficiencies, figure>>

\* Line 1250.
FilterSubmissions ==
    /\ Step("filter_submissions", FALSE)
    /\ submissions' =
           Select(submissions,
                  {i \in 1..Len(submissions) :
                      submissions[i].name # LANGEVIN_VIRTUAL_BOND_TI})
    /\ UNCHANGED <<yank_analysis, user_map, reference_efficiencies, figure>>

\* Line 1266.
SortSubmissions ==
    /\ Step("sort_submissions", FALSE)
    /\ submissions' = SortedByPaperName(submissions)
    /\ UNCHANGED <<yank_analysis, user_map, reference_efficiencies, figure>>

\* Line 1274: plot_all_entries_trajectory(submissions, yank_analysis,
\* zoomed=True).
PlotAllEntriesTrajectory ==
    /\ LET drawn == plot_all_entries_trajectory(submissions, yank_analysis,
                                                TRUE)
       IN  /\ Step("plot_all_entries_trajectory", drawn.raised # "")
           /\ figure' = drawn
    /\ UNCHANGED <<yank_analysis, user_map, reference_efficiencies,
                   submissions>>

\* Line 1290: sys.exit().
Exit ==
    /\ Step("exit", FALSE)
    /\ UNCHANGED <<yank_analysis, user_map, reference_efficiencies,
                   submissions, figure>>

NextMain ==
    \/ LoadReference
    \/ FitReference
    \/ ReadUserMap
    \/ LoadSubmissions
    \/ FilterSubmissions
    \/ SortSubmissions
    \/ PlotAllEntriesTrajectory
    \/ Exit

SpecMain == InitMain /\ [][NextMain]_vars

-----------------------------------------------------------------------------
(* Properties of fit_efficiency. *)

\* The candidate fit that discards the first n rows of md, stated from the
\* rows that remain.
CandidateFit(md, n) ==
    LET kept == [i \in 1..(Len(md) - n) |-> md[i + n]]
    IN  curve_fit([i \in 1..Len(kept) |-> kept[i].Simulation_percentage],
                  [i \in 1..Len(kept) |-> kept[i].std * kept[i].std])

FitReturned == fit_pc = "done" /\ ~fit_ret.raised

C2_SeventyPercentTried ==
    (fit_pc = "done" /\ find_best_fit) =>
        \A n \in 0..(Len(mean_data) - 1) :
            n < (7 * Len(mean_data)) \div 10 => n + 1 \in DOMAIN fits

\* C3: with find_best_fit=False exactly one fit is made, over every row of
\* mean_data, and the returned n_discarded is 0.
C3_AllDataOneFit ==
    (fit_pc = "done" /\ ~find_best_fit) =>
        /\ ~fit_ret.raised
        /\ Len(fits) = 1
        /\ fits[1] = CandidateFit(mean_data, 0)
        /\ fit_ret.n_discarded = 0

\* A call without the search on a frame long enough for the search to have
\* had several candidates.
C3_Witness ==
    /\ FitReturned
    /\ ~find_best_fit
    /\ Len(mean_data) >= 4
    /\ Len(fits) = 1

-----------------------------------------------------------------------------
(* Properties of compute_all_mean_relative_efficiencies. *)

\* The reference with its bias trajectory shifted so that it ends at zero.
ConvergedReference(ref) ==
    [i \in 1..Len(ref) |->
        [DG |-> ref[i].DG, std |-> ref[i].std,
         bias |-> ref[i].bias - ref[Len(ref)].bias]]

\* C5: the call returns two triples (std, |bias|, RMSD efficiency), the first
\* computed against the reference as passed, the second against a copy of
\* the reference whose bias trajectory is shifted to end at zero; the
\* caller's reference_mean_data is the same after the call as before it.
C5_TwoTriplesReferenceKept ==
    [][ (eff_pc = "call" /\ eff_pc' = "done") =>
            /\ reference_mean_data' = reference_mean_data
            /\ ~eff_ret'.raised =>
                 LET converged == ConvergedReference(reference_mean_data)
                 IN  /\ converged[Len(converged)].bias = 0
                     /\ Len(eff_ret'.relative) = 3
                     /\ Len(eff_ret'.corrected) = 3
                     /\ eff_ret'.relative =
                            compute_geometric_mean_relative_efficiencies(
                                eff_mean_data, reference_mean_data)
                     /\ eff_ret'.corrected =
                            compute_geometric_mean_relative_efficiencies(
                                eff_mean_data, converged) ]_vars

\* A call whose reference did not end at zero bias, so that the correction
\* changed the reference it was applied to and the efficiencies with it.
C5_Witness ==
    /\ eff_pc = "done"
    /\ ~eff_ret.raised
    /\ reference_mean_data[Len(reference_mean_data)].bias # 0
    /\ eff_ret.relative # eff_ret.corrected

\* C6: the standard-deviation efficiency (element 0) of the uncorrected
\* result equals that of the bias-corrected result.
C6_StdEfficiencyUnaffected ==
    (eff_pc = "done" /\ ~eff_ret.raised) =>
        eff_ret.relative[1] = eff_ret.corrected[1]

\* A call in which the correction changed the RMSD efficiency and left the
\* standard-deviation efficiency alone.
C6_Witness ==
    /\ eff_pc = "done"
    /\ ~eff_ret.raised
    /\ eff_ret.relative[3] # eff_ret.corrected[3]
    /\ eff_ret.relative[1] = eff_ret.corrected[1]

-----------------------------------------------------------------------------
(* Properties of reduce_to_first_significant_digit. *)

\* x with the digits below the multiples of step dropped.
Truncated(x, step) ==
    IF x >= 0 THEN step * (x \div step) ELSE -(step * ((-x) \div step))

\* x lies halfway between two multiples of step.
DecimalTie(x, step) == 2 * (x % step) = step

\* C7: for a non-zero uncertainty the quantity and the uncertainty are
\* truncated at the decimal position of the first significant digit of the
\* uncertainty: the digits below it are dropped, not rounded.  Stated for
\* the arguments that are not at a decimal tie, where the float's expansion
\* plays no part in the result.
C7_Truncates ==
    (round_pc = "done" /\ uncertainty # 0) =>
        LET step == Pow10(NDigits(Abs(uncertainty)) - 1)
        IN  (~DecimalTie(quantity, step) /\ ~DecimalTie(uncertainty, step)) =>
                /\ ~round_ret.raised
                /\ round_ret.quantity = Truncated(quantity, step)
                /\ round_ret.uncertainty = Truncated(uncertainty, step)


-----------------------------------------------------------------------------
(* Properties of plot_submissions_trajectory. *)

\* The draw calls made on the first-row axes of a column of the figure.
FirstRow(col) == figure.axes[0][col]

IsShade(artist) == artist.call = "fill_between"

\* A mean free-energy line; the label-only entry has no zorder.
IsLine(artist) == artist.call = "plot" /\ artist.zorder # <<>>

\* The mean CI of each method that has the col-th system, as the call on
\* the submissions given computes it.
SystemCis(col) ==
    LET collected == Collected(submissions, yank_analysis)
        system_name == system_names[col + 1]
    IN  MethodsCis(collected.all_mean_data,
                   collected.min_n_energy_evaluations[system_name],
                   system_name)

\* The lines drawn under a method's own label (the '-fullequil' label is
\* also the label of the second drawing of GROMACS/EE).
OwnLines(col) ==
    {i \in 1..Len(FirstRow(col)) :
        /\ IsLine(FirstRow(col)[i])
        /\ DictHas(SystemCis(col), FirstRow(col)[i].label)
        /\ FirstRow(col)[i].label # GROMACS_EE_FULLEQUIL}

\* C9: in every first-row axes, of two methods drawn, the one with the
\* smaller mean CI has the higher zorder (is drawn on top of the other).
C9_SmallerCIOnTop ==
    plot_pc = "done" =>
        \A col \in DOMAIN figure.axes[0] :
            \A i, j \in OwnLines(col) :
                FracLess(DictGet(SystemCis(col), FirstRow(col)[i].label),
                         DictGet(SystemCis(col), FirstRow(col)[j].label))
                => FirstRow(col)[i].zorder[1] > FirstRow(col)[j].zorder[1]

\* C10: in every first-row axes, every shaded area is followed by the line
\* of the same method with a zorder 20 higher, and every line has a zorder
\* strictly greater than the zorder of every shaded area.
C10_ShadesBehindLines ==
    plot_pc = "done" =>
        \A col \in DOMAIN figure.axes[0] :
            /\ \A i \in 1..Len(FirstRow(col)) :
                  IsShade(FirstRow(col)[i]) =>
                      /\ i < Len(FirstRow(col))
                      /\ IsLine(FirstRow(col)[i + 1])
                      /\ FirstRow(col)[i + 1].color = FirstRow(col)[i].color
                      /\ FirstRow(col)[i + 1].zorder[1]
                            = FirstRow(col)[i].zorder[1] + 20
            /\ \A i, j \in 1..Len(FirstRow(col)) :
                  IsShade(FirstRow(col)[i]) /\ IsLine(FirstRow(col)[j])
                  => FirstRow(col)[j].zorder[1] > FirstRow(col)[i].zorder[1]

\* The greatest rank that can be drawn: one less than the number of colors.
C10_Witness ==
    /\ plot_pc = "done"
    /\ \E col \in DOMAIN figure.axes[0] :
          \E i, j \in 1..Len(FirstRow(col)) :
              /\ IsShade(FirstRow(col)[i])
              /\ FirstRow(col)[i].zorder[1] >= Len(SUBMISSION_COLORS) - 2
              /\ IsLine(FirstRow(col)[j])
              /\ FirstRow(col)[j].zorder[1] = 20

-----------------------------------------------------------------------------
(* Properties of print_relative_efficiency_table. *)

\* The column of a system and a column name.
Column(system_name, column_name) ==
    DictGet(efficiency_table, <<system_name, column_name>>)

\* C4: the table has one row per submission, in the order given, then the
\* row of the reference, OpenMM/HREX, whose entries for the three
\* efficiencies are '1.0' for each of the three systems.
C4_ReferenceRowLast ==
    table_pc = "done" =>
        /\ Len(methods) = Len(submissions) + 1
        /\ \A i \in 1..Len(submissions) :
              methods[i] = submissions[i].paper_name
        /\ methods[Len(methods)] = YANK_METHOD_PAPER_NAME
        /\ \A j \in 1..Len(system_names) :
              /\ \A c \in 1..Len(column_names) :
                    Len(Column(system_names[j], column_names[c]))
                        = Len(methods)
              /\ \A k \in 1..Len(statistic_names) :
                    Column(system_names[j], statistic_names[k])[Len(methods)]
                        = Entry("1.0", <<>>)

\* A table of several submissions given out of alphabetical order.
C4_Witness ==
    /\ table_pc = "done"
    /\ Len(submissions) >= 2
    /\ StrLess(submissions[2].paper_name, submissions[1].paper_name)
    /\ methods[1] = submissions[1].paper_name
    /\ Column("OA-G6", E_RMSD)[Len(methods)] = Entry("1.0", <<>>)

-----------------------------------------------------------------------------
(* Properties of the main script. *)

Executed(statement) ==
    \E i \in 1..Len(executed) : executed[i] = statement

\* C8, as stated: three phases, all the loading, then the statistics, then
\* the rendering; no statistic is computed before the reference analysis,
\* the user map and the submissions are loaded, and nothing is rendered
\* before the statistics are computed.
C8_LoadComputeRender ==
    /\ Executed("fit_reference") =>
           /\ Executed("load_reference")
           /\ Executed("read_user_map")
           /\ Executed("load_submissions")
    /\ Executed("plot_all_entries_trajectory") => Executed("fit_reference")

\* C8, amended: the efficiencies of the reference are computed as soon as
\* the reference analysis is loaded, before the user map and the
\* submissions are; each statement runs after the data it uses is loaded,
\* and the figure is rendered after all the loading and computing.
C8_ReferenceFirstRenderLast ==
    /\ Executed("fit_reference") =>
           /\ Executed("load_reference")
           /\ ~Executed("read_user_map") => ~user_map
           /\ reference_efficiencies # <<>>
    /\ Executed("load_submissions") =>
           /\ Executed("read_user_map")
           /\ Executed("fit_reference")
    /\ Executed("plot_all_entries_trajectory") =>
           /\ Executed("load_reference")
           /\ Executed("fit_reference")
           /\ Executed("read_user_map")
           /\ Executed("load_submissions")
           /\ Executed("filter_submissions")
           /\ Executed("sort_submissions")
    /\ figure # NoFigure => Executed("plot_all_entries_trajectory")
    /\ (reference_efficiencies # <<>> /\ ~Executed("read_user_map")) =>
           /\ submissions = <<>>
           /\ figure = NoFigure

\* A run that ends with the figure saved, after the efficiencies of the
\* reference were computed with nothing but the reference loaded.
C8_Witness ==
    /\ main_pc = "exited"
    /\ executed = Statements
    /\ figure.saved # ""
    /\ Len(submissions) >= 2
    /\ Len(files) > Len(submissions)
    /\ reference_efficiencies # <<>>

-----------------------------------------------------------------------------
(* Properties of the legend labels of plot_submissions_trajectory. *)

\* The labels of the lines of the first-row axes of a column, in the order
\* in which they were drawn: the order of the entries of its legend.
Labels(col) ==
    LET lines == Select(FirstRow(col),
                        {i \in 1..Len(FirstRow(col)) :
                            FirstRow(col)[i].call = "plot"})
    IN  [i \in 1..Len(lines) |-> lines[i].label]

HasLabel(col, label) == \E i \in 1..Len(Labels(col)) : Labels(col)[i] = label

\* C11: in every first-row axes the labels are in ascending alphabetical
\* order (the order of Python strings), the label-only entry of
\* GROMACS/CT-NS-long and the '-fullequil' entries included: no label is
\* followed by a smaller one, when the call returns no label is repeated,
\* and then every method has its label on the axes of each system it has
\* data for.
C11_LabelsAlphabetical ==
    plot_pc = "done" =>
        \A col \in DOMAIN figure.axes[0] :
            /\ \A i \in 1..(Len(Labels(col)) - 1) :
                  /\ ~StrLess(Labels(col)[i + 1], Labels(col)[i])
                  /\ figure.raised = "" =>
                         StrLess(Labels(col)[i], Labels(col)[i + 1])
            /\ figure.raised = "" =>
                  /\ \A k \in 1..Len(submissions) :
                        ~(/\ submissions[k].name = EXPANDED_ENSEMBLE_MBAR
                          /\ col = 0)
                        => HasLabel(col, submissions[k].paper_name)
                  /\ yank_analysis => HasLabel(col, YANK_METHOD_PAPER_NAME)

\* Submissions given with the last before the first by paper name, drawn on
\* an axes that has the label-only entry, a '-fullequil' entry after the
\* entry of GROMACS/EE, and the reference.
C11_Witness ==
    /\ plot_pc = "done"
    /\ figure.raised = ""
    /\ Len(submissions) >= 2
    /\ StrLess(submissions[Len(submissions)].paper_name,
               submissions[1].paper_name)
    /\ \E col \in DOMAIN figure.axes[0] :
          /\ \E i \in 1..Len(FirstRow(col)) :
                /\ FirstRow(col)[i].label = GROMACS_CT_NS_LONG
                /\ FirstRow(col)[i].zorder = <<>>
          /\ \E i \in 1..(Len(Labels(col)) - 1) :
                /\ Labels(col)[i] = GROMACS_EE
                /\ Labels(col)[i + 1] = GROMACS_EE_FULLEQUIL
          /\ HasLabel(col, YANK_METHOD_PAPER_NAME)
          /\ Len(Labels(col)) >= Len(submissions) + 2

-----------------------------------------------------------------------------
(* Properties of the second drawing of the expanded-ensemble methods. *)

\* The costs of the rows of a mean trajectory from the first row with an
\* estimate on, each with `more` added, in millions of evaluations.
CostsFrom(md, more) ==
    LET start == CHOOSE i \in 1..Len(md) :
                     /\ md[i].DG # 0
                     /\ \A j \in 1..(i - 1) : md[j].DG = 0
    IN  [n \in 1..(Len(md) - start + 1) |->
            Frac(md[start + n - 1].N_energy_evaluations + more,
                 N_ENERGY_EVALUATIONS_SCALE)]

\* Four times the cost of the first row with an estimate.
FullEquilibrationCost(md) ==
    4 * md[CHOOSE i \in 1..Len(md) :
               /\ md[i].DG # 0
               /\ \A j \in 1..(i - 1) : md[j].DG = 0].N_energy_evaluations

\* The positions on an axes of the lines with a label.
Labelled(ax, label) ==
    {i \in 1..Len(ax) : ax[i].call = "plot" /\ ax[i].label = label}

-----------------------------------------------------------------------------
(* Properties of the pairs left out of the figure and of the table. *)

\* The pairs the claim names: CB8-G3 of the submission named
\* 'Expanded-ensemble/MBAR', and the systems other than CB8-G3 of the
\* submission with paper name 'GROMACS/CT-NS-long'.
LeftOut(submission, system_name) ==
    \/ submission.name = EXPANDED_ENSEMBLE_MBAR /\ system_name = "CB8-G3"
    \/ submission.paper_name = GROMACS_CT_NS_LONG /\ system_name # "CB8-G3"

\* A trajectory of the submission is drawn on the first-row axes of the
\* system: a line with data under the paper name of the submission.
TrajectoryDrawn(submission, j) ==
    \E i \in 1..Len(FirstRow(j - 1)) :
        /\ IsLine(FirstRow(j - 1)[i])
        /\ FirstRow(j - 1)[i].label = submission.paper_name
        /\ FirstRow(j - 1)[i].x # <<>>

\* The entry of the k-th row of the table in a column of a system.
TableEntry(k, system_name, column_name) ==
    Column(system_name, column_name)[k]

EmptyString == Entry("", <<>>)

\* The figure and the table of the submissions are both there.
Reported == plot_pc = "done" /\ figure.raised = "" /\ table_pc = "done"

\* No row with an estimate has both a bias and a reference bias that are
\* not zero: the absolute-bias efficiency is the geometric mean of nothing.
NoBiasToCompare(submission, system_name) ==
    LET md == submission.mean_free_energies[system_name]
        reference == get_free_energies_from_energy_evaluations(
                         md[Len(md)].N_energy_evaluations, system_name)
    IN  \A i \in 1..Len(md) :
            (\E h \in 1..i : md[h].DG # 0) =>
                (md[i].bias = 0 \/ reference[i].bias = 0)

\* C12, as stated: for the pairs left out no trajectory is drawn and the
\* five entries of the table are empty strings; for every other pair a
\* trajectory is drawn and the five entries are not empty.
C12_SamePairsLeftOut ==
    Reported =>
        \A k \in 1..Len(submissions) : \A j \in 1..Len(system_names) :
            IF LeftOut(submissions[k], system_names[j])
            THEN /\ ~TrajectoryDrawn(submissions[k], j)
                 /\ \A c \in 1..Len(column_names) :
                       TableEntry(k, system_names[j], column_names[c])
                           = EmptyString
            ELSE /\ TrajectoryDrawn(submissions[k], j)
                 /\ \A c \in 1..Len(column_names) :
                       TableEntry(k, system_names[j], column_names[c])
                           # EmptyString

\* C12, amended: for the pairs left out no trajectory is drawn and the
\* five entries of the table are empty strings; for every other pair a
\* trajectory is drawn, the Delta-G, cost, standard-deviation and RMSD
\* entries are not empty, and the absolute-bias entry is empty exactly when
\* there is no bias to compare (the efficiency is nan).
C12_LeftOutOrNan ==
    Reported =>
        \A k \in 1..Len(submissions) : \A j \in 1..Len(system_names) :
            IF LeftOut(submissions[k], system_names[j])
            THEN /\ ~TrajectoryDrawn(submissions[k], j)
                 /\ \A c \in 1..Len(column_names) :
                       TableEntry(k, system_names[j], column_names[c])
                           = EmptyString
            ELSE /\ TrajectoryDrawn(submissions[k], j)
                 /\ \A c \in 1..Len(column_names) :
                       column_names[c] # E_ABS_BIAS =>
                           TableEntry(k, system_names[j], column_names[c])
                               # EmptyString
                 /\ TableEntry(k, system_names[j], E_ABS_BIAS) = EmptyString
                       <=> NoBiasToCompare(submissions[k], system_names[j])

\* Both submissions with pairs left out, among others, reported next to a
\* pair that is not left out and has an empty absolute-bias entry and one
\* that has all its entries.
C12_Witness ==
    /\ Reported
    /\ \E k \in 1..Len(submissions) :
          /\ submissions[k].name = EXPANDED_ENSEMBLE_MBAR
          /\ TableEntry(k, "CB8-G3", DG_COLUMN) = EmptyString
          /\ TrajectoryDrawn(submissions[k], 2)
    /\ \E k \in 1..Len(submissions) :
          /\ submissions[k].paper_name = GROMACS_CT_NS_LONG
          /\ TableEntry(k, "OA-G6", E_RMSD) = EmptyString
          /\ TrajectoryDrawn(submissions[k], 1)
    /\ \E k \in 1..Len(submissions) : \E j \in 1..Len(system_names) :
          /\ ~LeftOut(submissions[k], system_names[j])
          /\ TableEntry(k, system_names[j], E_ABS_BIAS) = EmptyString
          /\ TableEntry(k, system_names[j], E_STD) # EmptyString
    /\ \E k \in 1..Len(submissions) : \E j \in 1..Len(system_names) :
          /\ ~LeftOut(submissions[k], system_names[j])
          /\ TableEntry(k, system_names[j], E_ABS_BIAS) # EmptyString

=============================================================================
